---- MODULE Spec2Model ----
(***************************************************************************)
(* Model of the retrieval engine of CaptBot (src/services/ragService.ts):  *)
(* the RagService singleton with its chunking, batched embedding, vector   *)
(* store, similarity search, localStorage persistence and bootstrap.       *)
(*                                                                         *)
(* Texts are sequences of tokens.  A token is one character, except "W",   *)
(* which stands for a run of 600 letters: the sentence regex and trim()    *)
(* treat a run of letters exactly as they treat one letter, only the       *)
(* length differs.  Numbers of embedding vectors are fixed-point, in       *)
(* hundredths (45 is 0.45), so a dot product is in ten-thousandths.        *)
(***************************************************************************)
EXTENDS Integers, Sequences, FiniteSets, TLC

(***************************************************************************)
(* Texts                                                                   *)
(***************************************************************************)
Punct == {".", "!", "?"}

Space == {" "}

Letters == {"a", "W", "H"}

Alphabet == Letters \cup Punct \cup Space

NonPunct == Alphabet \ Punct

\* String.prototype.length of the run of characters a token stands for.
TokenLength(t) == IF t = "W" THEN 600 ELSE IF t = "H" THEN 4500000 ELSE 1

RECURSIVE TextLength(_)
TextLength(text) ==
  IF text = <<>> THEN 0 ELSE TokenLength(Head(text)) + TextLength(Tail(text))

\* Last index of the maximal run of tokens of class S that starts at p
\* (p - 1 when text[p] is not in S).
RunEnd(text, p, S) ==
  CHOOSE q \in (p - 1)..Len(text) :
    /\ \A k \in p..q : text[k] \in S
    /\ q = Len(text) \/ text[q + 1] \notin S

\* String.prototype.trim
Trim(text) ==
  LET first == RunEnd(text, 1, Space) + 1
  IN  IF first > Len(text) THEN <<>>
      ELSE LET last == CHOOSE q \in first..Len(text) :
                         /\ text[q] \notin Space
                         /\ \A k \in (q + 1)..Len(text) : text[k] \in Space
           IN  SubSeq(text, first, last)

(***************************************************************************)
(* Chunker: indexDocument, lines 103-119                                   *)
(***************************************************************************)
TARGET_CHUNK_SIZE == 1000

\* One attempt of /[^.!?]+[.!?]+(\s+|$)|[^.!?]+$/ at position p: the index of
\* the last token matched, or 0 when the regex does not match at p.
MatchAt(text, p) ==
  LET q == RunEnd(text, p, NonPunct)
  IN  IF q < p THEN 0
      ELSE IF q = Len(text) THEN q
      ELSE LET r == RunEnd(text, q + 1, Punct)
           IN  IF r = Len(text) THEN r
               ELSE IF text[r + 1] \in Space THEN RunEnd(text, r + 1, Space)
               ELSE 0

\* content.match(/.../g): every match, scanning from p, left to right.
RECURSIVE MatchAll(_, _)
MatchAll(text, p) ==
  IF p > Len(text) THEN <<>>
  ELSE LET e == MatchAt(text, p)
       IN  IF e = 0 THEN MatchAll(text, p + 1)
           ELSE <<SubSeq(text, p, e)>> \o MatchAll(text, e + 1)

\* content.match(...) || [content]
Sentences(content) ==
  IF MatchAll(content, 1) = <<>> THEN <<content>> ELSE MatchAll(content, 1)

\* The sentences joined, in order
RECURSIVE Concat(_)
Concat(texts) == IF texts = <<>> THEN <<>> ELSE Head(texts) \o Concat(Tail(texts))

\* The loop without the size test of line 112: one chunk of all sentences
ChunkLoopNoFlush(sentences, currentChunk, out) ==
  LET all == Trim(currentChunk \o Concat(sentences))
  IN  IF TextLength(all) > 0 THEN Append(out, all) ELSE out

\* The for loop over the sentences: out is the list of chunks so far,
\* currentChunk the running buffer.
RECURSIVE ChunkLoop(_, _, _)
ChunkLoop(sentences, currentChunk, out) ==
  IF sentences = <<>>
  THEN IF TextLength(Trim(currentChunk)) > 0
       THEN Append(out, Trim(currentChunk)) ELSE out
  ELSE LET sentence == Head(sentences)
       IN  IF /\ TextLength(currentChunk) + TextLength(sentence) > TARGET_CHUNK_SIZE
              /\ TextLength(currentChunk) > 0
           THEN ChunkLoop(Tail(sentences), sentence, Append(out, Trim(currentChunk)))
           ELSE ChunkLoop(Tail(sentences), currentChunk \o sentence, out)

SplitIntoChunks(content) == ChunkLoop(Sentences(content), <<>>, <<>>)

(***************************************************************************)
(* Embedding provider (external): ai.models.embedContent                   *)
(***************************************************************************)
\* Unit vectors (to two decimals), in hundredths.  <<100, 0>> . <<45, 89>> is
\* exactly the threshold 0.45.
Vectors == {<<100, 0>>, <<45, 89>>, <<0, 100>>}

Reject == [kind |-> "reject", values |-> <<>>]

NoValues == [kind |-> "novalues", values |-> <<>>]

Embedded(v) == [kind |-> "ok", values |-> v]

\* What one embedContent call can end in: a rejection, a response without
\* embeddings[0].values, or a vector.
Outcomes(vecs) == {Reject, NoValues} \cup {Embedded(v) : v \in vecs}

(***************************************************************************)
(* Scoring                                                                 *)
(***************************************************************************)
RECURSIVE DotFrom(_, _, _)
DotFrom(queryVec, docVec, i) ==
  IF i > Len(queryVec) THEN 0
  ELSE queryVec[i] * docVec[i] + DotFrom(queryVec, docVec, i + 1)

cosineSimilarity(queryVec, docVec) == DotFrom(queryVec, docVec, 1)

\* score >= 0.45
AtOrAboveThreshold(score) == score >= 4500

\* score > 0.45, in ten-thousandths
AboveThreshold(score) == score > 4500

(***************************************************************************)
(* Persistence: JSON.stringify / localStorage / JSON.parse                 *)
(***************************************************************************)
SYSTEM_CORE_MEMORY == "SYSTEM_CORE_MEMORY"

NameLength(name) == IF name = SYSTEM_CORE_MEMORY THEN 18 ELSE 1

RECURSIVE DecimalLength(_)
DecimalLength(n) == IF n < 10 THEN 1 ELSE 1 + DecimalLength(n \div 10)

\* Length of the JSON text of a number given in hundredths: 0, 1, 0.5, 0.45
NumberJsonLength(x) ==
  IF x % 100 = 0 THEN DecimalLength(x \div 100)
  ELSE IF x % 10 = 0 THEN DecimalLength(x \div 100) + 2
  ELSE DecimalLength(x \div 100) + 3

\* [n,n,...]
RECURSIVE NumbersJsonLength(_)
NumbersJsonLength(e) ==
  IF e = <<>> THEN 0
  ELSE NumberJsonLength(Head(e)) + NumbersJsonLength(Tail(e))

\* Commas between the n elements of a JSON array
Commas(n) == IF n > 1 THEN n - 1 ELSE 0

EmbeddingJsonLength(e) == 2 + NumbersJsonLength(e) + Commas(Len(e))

\* {"id":"<uuid>","text":"...","embedding":[...],"sourceName":"..."}
ChunkJsonLength(c) ==
  49 + 10 + TextLength(c.text) + 13 + EmbeddingJsonLength(c.embedding)
     + 16 + NameLength(c.sourceName)

\* {"id":"<uuid>","name":"...","timestamp":<13 digits>,"chunkCount":n}
DocumentJsonLength(d) ==
  49 + 10 + NameLength(d.name) + 26 + 14 + DecimalLength(d.chunkCount)

RECURSIVE ChunksJsonLength(_)
ChunksJsonLength(chs) ==
  IF chs = <<>> THEN 0
  ELSE ChunkJsonLength(Head(chs)) + ChunksJsonLength(Tail(chs))

RECURSIVE DocumentsJsonLength(_)
DocumentsJsonLength(docs) ==
  IF docs = <<>> THEN 0
  ELSE DocumentJsonLength(Head(docs)) + DocumentsJsonLength(Tail(docs))

\* JSON.stringify({ chunks, documents }).length
SerializedLength(chs, docs) ==
  11 + 2 + ChunksJsonLength(chs) + Commas(Len(chs))
     + 13 + 2 + DocumentsJsonLength(docs) + Commas(Len(docs)) + 1

\* The characters of the decimal digits
Digits == <<"0", "1", "2", "3", "4", "5", "6", "7", "8", "9">>

\* The JSON text of a natural number
RECURSIVE DecimalText(_)
DecimalText(n) ==
  IF n < 10 THEN <<Digits[n + 1]>>
  ELSE Append(DecimalText(n \div 10), Digits[(n % 10) + 1])

\* Numbers written with one decimal at most: 0, 1, 0.5, 0.4
NumberJsonOneDecimal(x) ==
  IF x % 100 = 0 THEN DecimalText(x \div 100)
  ELSE DecimalText(x \div 100) \o <<".", Digits[((x % 100) \div 10) + 1]>>

\* The JSON text of a number given in hundredths: 0, 1, 0.5, 0.45
NumberJson(x) ==
  IF x % 100 = 0 THEN DecimalText(x \div 100)
  ELSE IF x % 10 = 0
       THEN DecimalText(x \div 100) \o <<".", Digits[((x % 100) \div 10) + 1]>>
       ELSE DecimalText(x \div 100)
              \o <<".", Digits[((x % 100) \div 10) + 1], Digits[(x % 10) + 1]>>

\* The digit a character stands for
DigitValue(ch) ==
  CASE ch = "0" -> 0 [] ch = "1" -> 1 [] ch = "2" -> 2 [] ch = "3" -> 3
    [] ch = "4" -> 4 [] ch = "5" -> 5 [] ch = "6" -> 6 [] ch = "7" -> 7
    [] ch = "8" -> 8 [] ch = "9" -> 9

\* The natural number a run of digits denotes
RECURSIVE ParseDecimal(_)
ParseDecimal(t) ==
  IF t = <<>> THEN 0
  ELSE 10 * ParseDecimal(SubSeq(t, 1, Len(t) - 1)) + DigitValue(t[Len(t)])

\* JSON.parse of a number text, in hundredths
ParseNumber(t) ==
  LET dots == {k \in 1..Len(t) : t[k] = "."}
  IN  IF dots = {} THEN 100 * ParseDecimal(t)
      ELSE LET dot == CHOOSE k \in dots : TRUE
               frac == SubSeq(t, dot + 1, Len(t))
           IN  100 * ParseDecimal(SubSeq(t, 1, dot - 1))
                 + (IF Len(frac) = 1 THEN 10 * ParseDecimal(frac)
                    ELSE ParseDecimal(SubSeq(frac, 1, 2)))

\* JSON.stringify of a chunk: strings as they are, numbers as their texts
ChunkJson(c) ==
  [id |-> c.id, text |-> c.text,
   embedding |-> [i \in 1..Len(c.embedding) |-> NumberJson(c.embedding[i])],
   sourceName |-> c.sourceName]

\* JSON.parse of the text of a chunk
ParseChunk(j) ==
  [id |-> j.id, text |-> j.text,
   embedding |-> [i \in 1..Len(j.embedding) |-> ParseNumber(j.embedding[i])],
   sourceName |-> j.sourceName]

\* JSON.stringify of a document record
DocumentJson(d) ==
  [id |-> d.id, name |-> d.name, chunkCount |-> NumberJson(100 * d.chunkCount)]

\* JSON.parse of the text of a document record
ParseDocument(j) ==
  [id |-> j.id, name |-> j.name, chunkCount |-> ParseNumber(j.chunkCount) \div 100]

\* The slot of localStorage under STORAGE_KEY: absent, a text JSON.parse
\* rejects, or the text JSON.stringify wrote.
Absent == [kind |-> "absent", chunks |-> <<>>, documents |-> <<>>]

Corrupt == [kind |-> "corrupt", chunks |-> <<>>, documents |-> <<>>]

\* JSON.stringify({ chunks: this.chunks, documents: this.documents })
Serialize(chs, docs) ==
  [kind |-> "json",
   chunks |-> [k \in 1..Len(chs) |-> ChunkJson(chs[k])],
   documents |-> [k \in 1..Len(docs) |-> DocumentJson(docs[k])]]

\* JSON.parse(data).chunks
ParseChunks(slot) == [k \in 1..Len(slot.chunks) |-> ParseChunk(slot.chunks[k])]

\* JSON.parse(data).documents
ParseDocuments(slot) ==
  [k \in 1..Len(slot.documents) |-> ParseDocument(slot.documents[k])]

\* saveToStorage without the length check of line 83
saveToStorageUnchecked(slot, chs, docs) == Serialize(chs, docs)

\* saveToStorage: the new content of the slot
saveToStorage(slot, chs, docs) ==
  IF SerializedLength(chs, docs) < 4500000 THEN Serialize(chs, docs) ELSE slot

\* loadFromStorage without its try/catch: the SyntaxError of JSON.parse
\* leaves the constructor
loadFromStorageUncaught(slot) ==
  IF slot.kind = "json"
  THEN [chunks |-> ParseChunks(slot), documents |-> ParseDocuments(slot),
        raised |-> FALSE]
  ELSE [chunks |-> <<>>, documents |-> <<>>, raised |-> slot.kind = "corrupt"]

\* loadFromStorage: the chunks and documents of a freshly built service, and
\* whether an error left the function (the catch of line 74 takes them all)
loadFromStorage(slot) ==
  IF slot.kind = "json"
  THEN [chunks |-> ParseChunks(slot), documents |-> ParseDocuments(slot),
        raised |-> FALSE]
  ELSE [chunks |-> <<>>, documents |-> <<>>, raised |-> FALSE]

(***************************************************************************)
(* Bounds of the model                                                     *)
(***************************************************************************)
\* indexDocument calls (by the user or by init) in one process lifetime
MaxCalls == 2

\* init calls in one process lifetime
MaxInits == 2

\* search calls in one process lifetime
MaxSearches == 1

\* page reloads (a fresh RagService built from the stored slot)
MaxRestarts == 1

\* largest topK passed to search
MaxTopK == 2

\* tokens of a text given to the chunker
MaxTextLen == 5

CallIds == 1..MaxCalls

InitIds == 1..MaxInits

SearchIds == 1..MaxSearches

(***************************************************************************)
(* Inputs                                                                  *)
(***************************************************************************)
Names == {"A", "B"}

\* Two sentences of more than half the target size each: two chunks.
TwoChunks == <<"W", ".", " ", "W", ".">>

\* Uploaded texts: no chunk, one chunk, two chunks.
Contents == {<<>>, <<"a", ".", " ", "a">>, TwoChunks}

\* The built-in knowledge text: well under the target size, one chunk.
SYSTEM_KNOWLEDGE_BASE == <<" ", "a", ".", " ", "a", ".", " ", "a", " ">>

(***************************************************************************)
(* State                                                                   *)
(***************************************************************************)
VARIABLES
  chunks,       \* RagService.chunks
  documents,    \* RagService.documents
  initialized,  \* RagService.initialized
  storage,      \* localStorage[STORAGE_KEY]
  calls,        \* the indexDocument calls: position and locals of each
  inits,        \* the init calls
  searches,     \* the search calls
  nextId,       \* the next value crypto.randomUUID() returns for a document
  restarts,     \* page reloads so far
  cache,        \* CacheService.cache: the Map's entries in insertion order
  got,          \* what the last CacheService.get returned
  isProcessing, \* App's isProcessing state
  abortControllerRef, \* App's abortControllerRef.current
  streams       \* the handleSubmit calls and the generator each one drives

vars ==
  <<chunks, documents, initialized, storage, calls, inits, searches, nextId,
    restarts, cache, got, isProcessing, abortControllerRef, streams>>

\* The state of RagService and of its calls
ragVars ==
  <<chunks, documents, initialized, storage, calls, inits, searches, nextId,
    restarts>>

\* The state of the chat front end: CacheService and App
frontVars == <<cache, got, isProcessing, abortControllerRef, streams>>

\* The value of `return;`
Undefined == 0

\* An embedContent request of a call: not issued, in flight, or settled with
\* the value its mapper returned (<<>> for null, <<chunk>> for a chunk).
Unset == [st |-> "unset", out |-> <<>>]

Pending == [st |-> "pending", out |-> <<>>]

Settled(kind, out) == [st |-> kind, out |-> out]

IdleCall ==
  [pc |-> "idle", name |-> "", content |-> <<>>, segs |-> <<>>, i |-> 0,
   res |-> <<>>, newChunks |-> <<>>, docId |-> Undefined, ret |-> Undefined,
   issued |-> 0]

IdleInit == [pc |-> "idle", call |-> 0]

IdleSearch ==
  [pc |-> "idle", topK |-> 0, issued |-> 0, outcome |-> "", queryVec |-> <<>>,
   seen |-> <<>>, result |-> <<>>]

(***************************************************************************)
(* indexDocument                                                           *)
(***************************************************************************)
\* A dedup check that only counts documents that kept a chunk
AlreadyIndexedNonEmpty(docs, name) ==
  \E k \in 1..Len(docs) : docs[k].name = name /\ docs[k].chunkCount > 0

\* Deduplication check, line 95
AlreadyIndexed(docs, name) == \E k \in 1..Len(docs) : docs[k].name = name

BATCH_SIZE == 6

\* A loop that takes full batches only: the chunks after the last full batch
\* are never embedded
BatchFullOnly(n, i) ==
  IF i + BATCH_SIZE <= n THEN {k \in 1..n : i < k /\ k <= i + BATCH_SIZE} ELSE {}

\* chunks.slice(i, i + BATCH_SIZE), as the (1-based) positions of the n chunks
Batch(n, i) == {k \in 1..n : i < k /\ k <= i + BATCH_SIZE}

\* batch.map(async ...): every request of the batch is issued before the
\* first await returns control
IssueBatch(res, batch) ==
  [k \in DOMAIN res |-> IF k \in batch THEN Pending ELSE res[k]]

\* A mapper without the check of line 134: a response without values still
\* makes a chunk
MapperResultUnchecked(name, docId, k, text, outcome) ==
  IF outcome.kind # "reject"
  THEN <<[id |-> <<docId, k>>, text |-> text, embedding |-> outcome.values,
          sourceName |-> name]>>
  ELSE <<>>

\* What the mapper of lines 127-147 returns for chunk k once its request
\* ended in outcome
MapperResult(name, docId, k, text, outcome) ==
  IF outcome.kind = "ok"
  THEN <<[id |-> <<docId, k>>, text |-> text, embedding |-> outcome.values,
          sourceName |-> name]>>
  ELSE <<>>

\* unshift in place of push: the results end up in reverse order
RECURSIVE PushResultsReversed(_, _, _)
PushResultsReversed(res, lo, hi) ==
  IF lo > hi THEN <<>> ELSE PushResultsReversed(res, lo + 1, hi) \o res[lo].out

\* results.forEach(r => { if (r) newChunks.push(r) }) over positions lo..hi
RECURSIVE PushResults(_, _, _)
PushResults(res, lo, hi) ==
  IF lo > hi THEN <<>> ELSE res[lo].out \o PushResults(res, lo + 1, hi)

\* Promise.race in place of Promise.all: one settled request is enough
BatchSettledRace(call) ==
  \E k \in DOMAIN call.res : call.res[k].st \notin {"unset", "pending"}

\* The Promise.all of the running batch has resolved
BatchSettled(call) == \A k \in DOMAIN call.res : call.res[k].st # "pending"

\* Lines 155-164 with assignments in place of the pushes: the store becomes
\* what this call made
FinishReplace(c, call, newChunks) ==
  LET doc == [id |-> call.docId, name |-> call.name,
              chunkCount |-> Len(newChunks)]
  IN  /\ chunks' = newChunks
      /\ documents' = <<doc>>
      /\ storage' = saveToStorage(storage, chunks', documents')
      /\ calls' = [calls EXCEPT ![c] =
                     [IdleCall EXCEPT !.pc = "done", !.name = call.name,
                                      !.docId = call.docId, !.ret = call.docId,
                                      !.issued = call.issued]]

\* Lines 155-164: append, record the document, save, return docId.  The
\* locals of the call are gone once it has returned.
Finish(c, call, newChunks) ==
  LET doc == [id |-> call.docId, name |-> call.name,
              chunkCount |-> Len(newChunks)]
  IN  /\ chunks' = chunks \o newChunks
      /\ documents' = Append(documents, doc)
      /\ storage' = saveToStorage(storage, chunks', documents')
      /\ calls' = [calls EXCEPT ![c] =
                     [IdleCall EXCEPT !.pc = "done", !.name = call.name,
                                      !.docId = call.docId, !.ret = call.docId,
                                      !.issued = call.issued]]

\* The free slot a new call takes
FreeCall(c) ==
  /\ calls[c].pc = "idle"
  /\ \A b \in CallIds : b < c => calls[b].pc # "idle"

\* indexDocument(name, content) up to its first await (or to its return)
IndexStart(c, name, content) ==
  /\ FreeCall(c)
  /\ IF AlreadyIndexed(documents, name)
     THEN /\ calls' = [calls EXCEPT ![c] =
                         [IdleCall EXCEPT !.pc = "done", !.name = name]]
          /\ UNCHANGED <<chunks, documents, storage, nextId>>
     ELSE LET segs == SplitIntoChunks(content)
              call == [IdleCall EXCEPT !.name = name, !.segs = segs,
                                       !.docId = nextId,
                                       !.res = [k \in 1..Len(segs) |-> Unset]]
          IN  /\ nextId' = nextId + 1
              /\ IF segs = <<>>
                 THEN Finish(c, call, <<>>)
                 ELSE /\ calls' = [calls EXCEPT ![c] =
                            [call EXCEPT
                               !.pc = "await",
                               !.res = IssueBatch(call.res, Batch(Len(segs), 0)),
                               !.issued = Cardinality(Batch(Len(segs), 0))]]
                      /\ UNCHANGED <<chunks, documents, storage>>

indexDocument(c, name, content) ==
  /\ IndexStart(c, name, content)
  /\ UNCHANGED <<initialized, inits, searches, restarts>>
  /\ UNCHANGED frontVars

\* A mapper that pushes its chunk to this.chunks as soon as it is embedded
EmbedSettledEager(c, k, outcome) ==
  /\ calls[c].pc = "await"
  /\ k \in DOMAIN calls[c].res
  /\ calls[c].res[k].st = "pending"
  /\ calls' = [calls EXCEPT ![c].res[k] = Settled(outcome.kind, <<>>)]
  /\ chunks' = chunks \o
       (IF outcome.kind = "ok"
        THEN <<[id |-> <<calls[c].docId, k>>, text |-> calls[c].segs[k],
                embedding |-> outcome.values, sourceName |-> calls[c].name]>>
        ELSE <<>>)
  /\ UNCHANGED <<documents, initialized, storage, inits, searches, nextId,
                 restarts>>
  /\ UNCHANGED frontVars

\* One embedContent request of call c settles: the mapper's continuation
EmbedSettled(c, k, outcome) ==
  /\ calls[c].pc = "await"
  /\ k \in DOMAIN calls[c].res
  /\ calls[c].res[k].st = "pending"
  /\ calls' = [calls EXCEPT ![c].res[k] =
       Settled(outcome.kind,
               MapperResult(calls[c].name, calls[c].docId, k,
                            calls[c].segs[k], outcome))]
  /\ UNCHANGED <<chunks, documents, initialized, storage, inits, searches,
                 nextId, restarts>>
  /\ UNCHANGED frontVars

\* await Promise.all(promises) returns: push the results, then either issue
\* the next batch or finish
BatchResolved(c) ==
  LET call == calls[c]
      n == Len(call.segs)
      batch == Batch(n, call.i)
      newChunks == call.newChunks \o
                   PushResults(call.res, call.i + 1, call.i + Cardinality(batch))
      i == call.i + BATCH_SIZE
  IN  /\ call.pc = "await"
      /\ BatchSettled(call)
      /\ IF i < n
         THEN /\ calls' = [calls EXCEPT ![c] =
                    [call EXCEPT !.i = i, !.newChunks = newChunks,
                                 !.res = IssueBatch(call.res, Batch(n, i)),
                                 !.issued = call.issued + Cardinality(Batch(n, i))]]
              /\ UNCHANGED <<chunks, documents, storage>>
         ELSE Finish(c, call, newChunks)
      /\ UNCHANGED <<initialized, inits, searches, nextId, restarts>>
      /\ UNCHANGED frontVars

(***************************************************************************)
(* search                                                                  *)
(***************************************************************************)
\* this.chunks.map(chunk => ({ chunk, score }))
Scored(chs, queryVec) ==
  [k \in 1..Len(chs) |->
     [chunk |-> chs[k], score |-> cosineSimilarity(queryVec, chs[k].embedding)]]

\* An unstable sort: x goes in front of the elements of equal score
InsertDescendingUnstable(sorted, x) ==
  LET pos == Cardinality({k \in 1..Len(sorted) : sorted[k].score > x.score})
  IN  SubSeq(sorted, 1, pos) \o <<x>> \o SubSeq(sorted, pos + 1, Len(sorted))

\* Array.prototype.sort is stable: x goes behind every element that the
\* comparator (b.score - a.score) does not put after it.
InsertDescending(sorted, x) ==
  LET pos == Cardinality({k \in 1..Len(sorted) : sorted[k].score >= x.score})
  IN  SubSeq(sorted, 1, pos) \o <<x>> \o SubSeq(sorted, pos + 1, Len(sorted))

RECURSIVE SortDescending(_)
SortDescending(scored) ==
  IF scored = <<>> THEN <<>>
  ELSE InsertDescending(SortDescending(SubSeq(scored, 1, Len(scored) - 1)),
                        scored[Len(scored)])

\* .slice(0, topK - 1)
SliceShort(seq, topK) ==
  SubSeq(seq, 1, IF topK - 1 < Len(seq) THEN topK - 1 ELSE Len(seq))

\* .slice(0, topK)
Slice(seq, topK) == SubSeq(seq, 1, IF topK < Len(seq) THEN topK ELSE Len(seq))

\* .filter(s => s.score > 0.45)
FilterThreshold(seq) == SelectSeq(seq, LAMBDA s : AboveThreshold(s.score))

\* Lines 188-197
Ranked(chs, queryVec, topK) ==
  LET kept == FilterThreshold(Slice(SortDescending(Scored(chs, queryVec)), topK))
  IN  [k \in 1..Len(kept) |-> kept[k].chunk]

\* No early return on an empty store
StoreEmptyUnchecked(chs) == FALSE

\* Line 168
StoreEmpty(chs) == Len(chs) = 0

\* search(query, topK) up to its await (or to its return on an empty store)
search(s, topK) ==
  /\ searches[s].pc = "idle"
  /\ IF StoreEmpty(chunks)
     THEN searches' = [searches EXCEPT ![s] =
                         [IdleSearch EXCEPT !.pc = "done", !.topK = topK]]
     ELSE searches' = [searches EXCEPT ![s] =
                         [IdleSearch EXCEPT !.pc = "await", !.topK = topK,
                                            !.issued = 1]]
  /\ UNCHANGED <<chunks, documents, initialized, storage, calls, inits, nextId,
                 restarts>>
  /\ UNCHANGED frontVars

\* A search that answers with the first topK chunks when the query could
\* not be embedded
SearchResultUnranked(chs, outcome, topK) ==
  IF outcome.kind = "ok" THEN Ranked(chs, outcome.values, topK)
  ELSE SubSeq(chs, 1, IF topK < Len(chs) THEN topK ELSE Len(chs))

\* What search returns once the query embedding ended in outcome
SearchResult(chs, outcome, topK) ==
  IF outcome.kind = "ok" THEN Ranked(chs, outcome.values, topK) ELSE <<>>

\* The query embedding settles; search ranks the chunks the store holds now
searchEmbedSettled(s, outcome) ==
  /\ searches[s].pc = "await"
  /\ searches' = [searches EXCEPT ![s] =
       [searches[s] EXCEPT
          !.pc = "done", !.outcome = outcome.kind,
          !.queryVec = outcome.values, !.seen = chunks,
          !.result = SearchResult(chunks, outcome, searches[s].topK)]]
  /\ UNCHANGED <<chunks, documents, initialized, storage, calls, inits, nextId,
                 restarts>>
  /\ UNCHANGED frontVars

(***************************************************************************)
(* removeDocument, clear                                                   *)
(***************************************************************************)
\* this.documents.find(d => d.id === id), as a sequence of at most one
FindById(docs, id) ==
  LET hits == SelectSeq(docs, LAMBDA d : d.id = id)
  IN  IF hits = <<>> THEN <<>> ELSE <<Head(hits)>>

\* The filter of line 209 inverted: only the chunks of the document stay
OnlySource(chs, name) == SelectSeq(chs, LAMBDA c : c.sourceName = name)

\* this.chunks.filter(c => c.sourceName !== doc.name)
WithoutSource(chs, name) == SelectSeq(chs, LAMBDA c : c.sourceName # name)

\* removeDocument without the return of line 206: it saves whether or not
\* the id is known
removeDocumentAlwaysSaves(id) ==
  /\ LET found == FindById(documents, id)
     IN  /\ documents' = SelectSeq(documents, LAMBDA d : d.id # id)
         /\ chunks' = IF found = <<>> THEN chunks
                       ELSE WithoutSource(chunks, found[1].name)
         /\ storage' = saveToStorage(storage, chunks', documents')
  /\ UNCHANGED <<initialized, calls, inits, searches, nextId, restarts>>
  /\ UNCHANGED frontVars

removeDocument(id) ==
  /\ LET found == FindById(documents, id)
     IN  IF found = <<>>
         THEN UNCHANGED <<chunks, documents, storage>>
         ELSE /\ documents' = SelectSeq(documents, LAMBDA d : d.id # id)
              /\ chunks' = WithoutSource(chunks, found[1].name)
              /\ storage' = saveToStorage(storage, chunks', documents')
  /\ UNCHANGED <<initialized, calls, inits, searches, nextId, restarts>>
  /\ UNCHANGED frontVars

\* clear without line 219: the snapshot stays in the slot
clearKeepsSnapshot ==
  /\ chunks' = <<>>
  /\ documents' = <<>>
  /\ initialized' = FALSE
  /\ UNCHANGED <<storage, calls, inits, searches, nextId, restarts>>
  /\ UNCHANGED frontVars

clear ==
  /\ chunks' = <<>>
  /\ documents' = <<>>
  /\ initialized' = FALSE
  /\ storage' = Absent
  /\ UNCHANGED <<calls, inits, searches, nextId, restarts>>
  /\ UNCHANGED frontVars

(***************************************************************************)
(* init                                                                    *)
(***************************************************************************)
\* init() up to its await of indexDocument (or to its return)
init(n) ==
  /\ inits[n].pc = "idle"
  /\ IF initialized
     THEN /\ inits' = [inits EXCEPT ![n].pc = "done"]
          /\ UNCHANGED <<chunks, documents, initialized, storage, calls, nextId>>
     ELSE IF AlreadyIndexed(documents, SYSTEM_CORE_MEMORY)
     THEN /\ initialized' = TRUE
          /\ inits' = [inits EXCEPT ![n].pc = "done"]
          /\ UNCHANGED <<chunks, documents, storage, calls, nextId>>
     ELSE \E c \in CallIds :
            /\ IndexStart(c, SYSTEM_CORE_MEMORY, SYSTEM_KNOWLEDGE_BASE)
            /\ inits' = [inits EXCEPT ![n] = [pc |-> "await", call |-> c]]
            /\ UNCHANGED initialized
  /\ UNCHANGED <<searches, restarts>>
  /\ UNCHANGED frontVars

\* init whose line 62 is not reached after the await
initResumeNoFlag(n) ==
  /\ inits[n].pc = "await"
  /\ calls[inits[n].call].pc = "done"
  /\ inits' = [inits EXCEPT ![n].pc = "done"]
  /\ UNCHANGED <<chunks, documents, initialized, storage, calls, searches,
                 nextId, restarts>>
  /\ UNCHANGED frontVars

\* The awaited indexDocument has returned: line 62
initResume(n) ==
  /\ inits[n].pc = "await"
  /\ calls[inits[n].call].pc = "done"
  /\ initialized' = TRUE
  /\ inits' = [inits EXCEPT ![n].pc = "done"]
  /\ UNCHANGED <<chunks, documents, storage, calls, searches, nextId, restarts>>
  /\ UNCHANGED frontVars

(***************************************************************************)
(* CacheService (src/unnamed/part_001, lines 1-26).  A query is a sequence *)
(* of character codes; the Map is the sequence of its entries in insertion *)
(* order.                                                                  *)
(***************************************************************************)
MAX_SIZE == 50

\* Character codes: space and the marks normalize removes
SpaceCode == 32

MarkCodes == {33, 44, 46, 63}

\* What `||` turns a missing entry into
Null == <<>>

\* String.prototype.trim on character codes
TrimCodes(q) ==
  LET kept == {k \in 1..Len(q) : q[k] # SpaceCode}
  IN  IF kept = {} THEN <<>>
      ELSE SubSeq(q, CHOOSE a \in kept : \A k \in kept : a <= k,
                     CHOOSE b \in kept : \A k \in kept : k <= b)

\* String.prototype.toLowerCase
ToLowerCase(q) ==
  [k \in 1..Len(q) |-> IF q[k] \in 65..90 THEN q[k] + 32 ELSE q[k]]

\* Lines 5-7
normalize(query) ==
  SelectSeq(ToLowerCase(TrimCodes(query)), LAMBDA ch : ch \notin MarkCodes)

\* Map.prototype.get / has
CacheHas(entries, key) == \E k \in 1..Len(entries) : entries[k].key = key

CacheValue(entries, key) ==
  entries[CHOOSE k \in 1..Len(entries) : entries[k].key = key].response

\* Map.prototype.set: a present key keeps its place, a new one goes last
MapSet(entries, key, response) ==
  IF CacheHas(entries, key)
  THEN [k \in 1..Len(entries) |->
          IF entries[k].key = key
          THEN [key |-> key, response |-> response] ELSE entries[k]]
  ELSE Append(entries, [key |-> key, response |-> response])

\* Lines 16-19: `if (firstKey)` is false for the empty string
Evict(entries) ==
  IF Len(entries) >= MAX_SIZE
  THEN LET firstKey == entries[1].key
       IN  IF firstKey # <<>>
           THEN SelectSeq(entries, LAMBDA e : e.key # firstKey)
           ELSE entries
  ELSE entries

\* Lines 9-12
cacheGet(query) ==
  /\ got' = (LET key == normalize(query)
             IN  IF CacheHas(cache, key) THEN CacheValue(cache, key) ELSE Null)
  /\ UNCHANGED <<cache, isProcessing, abortControllerRef, streams>>
  /\ UNCHANGED ragVars

\* Lines 14-21
cacheSet(query, response) ==
  /\ cache' = MapSet(Evict(cache), normalize(query), response)
  /\ UNCHANGED <<got, isProcessing, abortControllerRef, streams>>
  /\ UNCHANGED ragVars

\* Lines 23-25
cacheClear ==
  /\ cache' = <<>>
  /\ UNCHANGED <<got, isProcessing, abortControllerRef, streams>>
  /\ UNCHANGED ragVars

(***************************************************************************)
(* App (src/unnamed/part_001) and the generator it consumes,               *)
(* GeminiService.sendMessageStream (src/unnamed/part_000).  A stream is a  *)
(* handleSubmit call together with its generator; its AbortController is   *)
(* named by the stream's number.                                           *)
(***************************************************************************)
\* handleSubmit calls that get past the guards
MaxSubmits == 3

\* results the model lets generateContentStream deliver to one stream
MaxChunks == 2

SubmitIds == 1..MaxSubmits

\* abortControllerRef.current = null
NoController == 0

\* Prompts: blank, too short for the guardrail, plain, asking for a
\* picture, and a prohibited one.
Prompts == {" ", "a", "hello", "draw a cat", "bypass this"}

\* promptText.trim() is empty
Blank(prompt) == prompt = " "

\* GuardrailService.validate(promptText).isValid
validate(prompt) == prompt \in {"hello", "draw a cat"}

\* part_000 line 32
isVisualRequest(prompt, hasAttachments) ==
  prompt = "draw a cat" /\ ~hasAttachments

IdleStream ==
  [pc |-> "idle", visual |-> FALSE, aborted |-> FALSE, yielded |-> 0,
   outcome |-> ""]

Running(stream) == stream.pc \in {"search", "generate", "open", "stream"}

\* The for-await loop of handleSubmit is left (normally, or by the catch of
\* lines 322-332), and the finally block of lines 333-336 runs.
Settle(s, yielded, outcome) ==
  /\ streams' = [streams EXCEPT ![s].pc = "done", ![s].yielded = yielded,
                                ![s].outcome = outcome]
  /\ isProcessing' = FALSE
  /\ abortControllerRef' = NoController

\* handleSubmit up to its first await: the guards of lines 217-220, then
\* lines 246-292 and the generator's start (part_000 lines 21-27: the new
\* controller's signal is not aborted, so line 24 does not throw).
handleSubmit(s, prompt, hasAttachments) ==
  /\ streams[s].pc = "idle"
  /\ \A t \in SubmitIds : t < s => streams[t].pc # "idle"
  /\ IF (Blank(prompt) /\ ~hasAttachments) \/ isProcessing
     THEN UNCHANGED <<isProcessing, abortControllerRef, streams>>
     ELSE IF ~validate(prompt)
     THEN UNCHANGED <<isProcessing, abortControllerRef, streams>>
     ELSE /\ isProcessing' = TRUE
          /\ abortControllerRef' = s
          /\ streams' = [streams EXCEPT ![s] =
               [IdleStream EXCEPT !.pc = "search",
                   !.visual = isVisualRequest(prompt, hasAttachments)]]
  /\ UNCHANGED <<cache, got>>
  /\ UNCHANGED ragVars

\* The Stop button (rendered while isProcessing): lines 140-146
handleStop ==
  /\ isProcessing
  /\ IF abortControllerRef # NoController
     THEN /\ streams' = [streams EXCEPT ![abortControllerRef].aborted = TRUE]
          /\ abortControllerRef' = NoController
          /\ isProcessing' = FALSE
     ELSE UNCHANGED <<isProcessing, abortControllerRef, streams>>
  /\ UNCHANGED <<cache, got>>
  /\ UNCHANGED ragVars

\* `await rag.search(message)` returns (part_000 line 27); the generator
\* goes on to the request its path makes, lines 34-35 or 98.
SearchReturned(s) ==
  /\ streams[s].pc = "search"
  /\ streams' = [streams EXCEPT ![s].pc =
                   IF streams[s].visual THEN "generate" ELSE "open"]
  /\ UNCHANGED <<cache, got, isProcessing, abortControllerRef>>
  /\ UNCHANGED ragVars

\* The visual path: generateContent settles (part_000 lines 35-52).  On
\* success the generator yields its one result, handleSubmit's loop body
\* runs, and the generator returns.
GenerateReturned(s, ok) ==
  /\ streams[s].pc = "generate"
  /\ IF ok
     THEN Settle(s, streams[s].yielded + 1, "completed")
     ELSE Settle(s, streams[s].yielded, "error")
  /\ UNCHANGED <<cache, got>>
  /\ UNCHANGED ragVars

\* generateContentStream settles (part_000 line 98)
StreamOpened(s, ok) ==
  /\ streams[s].pc = "open"
  /\ IF ok
     THEN /\ streams' = [streams EXCEPT ![s].pc = "stream"]
          /\ UNCHANGED <<isProcessing, abortControllerRef>>
     ELSE Settle(s, streams[s].yielded, "error")
  /\ UNCHANGED <<cache, got>>
  /\ UNCHANGED ragVars

\* The provider's stream delivers its next event (part_000 lines 104-115):
\* a chunk is yielded unless the signal is aborted, in which case line 106
\* throws.
StreamStep(s, event) ==
  /\ streams[s].pc = "stream"
  /\ IF event = "chunk"
     THEN /\ streams[s].yielded < MaxChunks
          /\ IF streams[s].aborted
             THEN Settle(s, streams[s].yielded, "aborted")
             ELSE /\ streams' = [streams EXCEPT ![s].yielded = @ + 1]
                  /\ UNCHANGED <<isProcessing, abortControllerRef>>
     ELSE IF event = "end"
     THEN Settle(s, streams[s].yielded, "completed")
     ELSE Settle(s, streams[s].yielded, "error")
  /\ UNCHANGED <<cache, got>>
  /\ UNCHANGED ragVars

\* The module is loaded and App is mounted
FrontInit ==
  /\ cache = <<>>
  /\ got = Null
  /\ isProcessing = FALSE
  /\ abortControllerRef = NoController
  /\ streams = [s \in SubmitIds |-> IdleStream]

(***************************************************************************)
(* Process lifetime                                                        *)
(***************************************************************************)
\* The page is reloaded: every call in flight is gone and `new RagService()`
\* runs the constructor on the stored slot.
restart ==
  /\ restarts < MaxRestarts
  /\ restarts' = restarts + 1
  /\ LET loaded == loadFromStorage(storage)
     IN  /\ chunks' = loaded.chunks
         /\ documents' = loaded.documents
  /\ initialized' = FALSE
  /\ calls' = [c \in CallIds |-> IdleCall]
  /\ inits' = [n \in InitIds |-> IdleInit]
  /\ searches' = [s \in SearchIds |-> IdleSearch]
  /\ UNCHANGED <<storage, nextId>>
  /\ cache' = <<>>
  /\ got' = Null
  /\ isProcessing' = FALSE
  /\ abortControllerRef' = NoController
  /\ streams' = [s \in SubmitIds |-> IdleStream]

\* The first lifetime: the slot was never written, or holds text that
\* JSON.parse rejects.
Init ==
  /\ storage \in {Absent, Corrupt}
  /\ chunks = loadFromStorage(storage).chunks
  /\ documents = loadFromStorage(storage).documents
  /\ initialized = FALSE
  /\ calls = [c \in CallIds |-> IdleCall]
  /\ inits = [n \in InitIds |-> IdleInit]
  /\ searches = [s \in SearchIds |-> IdleSearch]
  /\ nextId = 1
  /\ restarts = 0
  /\ FrontInit

(***************************************************************************)
(* Spec: the operations a user drives (upload, delete, clear), any number  *)
(* of them overlapping at the embedding awaits.                            *)
(***************************************************************************)
\* Vectors the embedding provider returns for chunks in the lifecycle models
DocVectors == {<<100, 0>>}

IndexDocumentCall == \E c \in CallIds, name \in Names, content \in Contents :
  indexDocument(c, name, content)

EmbedSettledStep ==
  \E c \in CallIds : \E k \in 1..Len(calls[c].segs), o \in Outcomes(DocVectors) :
    EmbedSettled(c, k, o)

BatchResolvedStep == \E c \in CallIds : BatchResolved(c)

RemoveDocumentCall == \E id \in 1..nextId : removeDocument(id)

Next ==
  \/ IndexDocumentCall
  \/ EmbedSettledStep
  \/ BatchResolvedStep
  \/ RemoveDocumentCall
  \/ clear

Spec == Init /\ [][Next]_vars

(***************************************************************************)
(* SpecBoot: bootstrap and process lifetime (init, reload), with deletes   *)
(* and clears in between.                                                  *)
(***************************************************************************)
InitCall == \E n \in InitIds : init(n)

InitResumeStep == \E n \in InitIds : initResume(n)

NextBoot ==
  \/ InitCall
  \/ InitResumeStep
  \/ EmbedSettledStep
  \/ BatchResolvedStep
  \/ RemoveDocumentCall
  \/ clear
  \/ restart

SpecBoot == Init /\ [][NextBoot]_vars

(***************************************************************************)
(* SpecBatch: one upload long enough to need more than one batch.          *)
(***************************************************************************)
\* Sentences of the long upload (one chunk each)
LongSentences == 7

\* n sentences of 602 characters each: n chunks
RECURSIVE LongContent(_)
LongContent(n) ==
  IF n = 0 THEN <<>> ELSE <<"W", ".", " ">> \o LongContent(n - 1)

LongUpload == indexDocument(1, "A", LongContent(LongSentences))

NextBatch ==
  \/ LongUpload
  \/ EmbedSettledStep
  \/ BatchResolvedStep

SpecBatch == Init /\ [][NextBatch]_vars

(***************************************************************************)
(* SpecSearch: search over every store of up to MaxStored chunks.          *)
(***************************************************************************)
\* Chunks in the store when the searches start
MaxStored == 3

\* The store after document "A" of n sentences was indexed and its chunks
\* embedded as embs
StoredChunks(n, embs) ==
  [k \in 1..n |->
     [id |-> <<1, k>>, text |-> SplitIntoChunks(LongContent(n))[k],
      embedding |-> embs[k], sourceName |-> "A"]]

InitSearch ==
  /\ \E n \in 0..MaxStored : \E embs \in [1..n -> Vectors] :
       /\ chunks = StoredChunks(n, embs)
       /\ documents = <<[id |-> 1, name |-> "A", chunkCount |-> n]>>
  /\ storage = saveToStorage(Absent, chunks, documents)
  /\ initialized = FALSE
  /\ calls = [c \in CallIds |-> IdleCall]
  /\ inits = [n \in InitIds |-> IdleInit]
  /\ searches = [s \in SearchIds |-> IdleSearch]
  /\ nextId = 2
  /\ restarts = 0
  /\ FrontInit

SearchCall == \E s \in SearchIds, topK \in 1..MaxTopK : search(s, topK)

SearchEmbedSettledStep == \E s \in SearchIds, o \in Outcomes(Vectors) :
  searchEmbedSettled(s, o)

NextSearch ==
  \/ SearchCall
  \/ SearchEmbedSettledStep
  \/ RemoveDocumentCall

SpecSearch == InitSearch /\ [][NextSearch]_vars

(***************************************************************************)
(* FairSpecIndex: overlapping uploads of two-chunk documents, with clear   *)
(* in between.  The event loop runs the continuation of every settled      *)
(* await; whether the embedding provider answers is not assumed.           *)
(***************************************************************************)
TwoChunkUpload == \E c \in CallIds, name \in Names :
  indexDocument(c, name, TwoChunks)

\* One embedding request of call c settles: it is rejected or gives a vector
EmbedSettledOf(c) ==
  \E k \in 1..Len(calls[c].segs), o \in {Reject} \cup {Embedded(v) : v \in DocVectors} :
    EmbedSettled(c, k, o)

IndexEmbedSettledStep == \E c \in CallIds : EmbedSettledOf(c)

NextIndex ==
  \/ TwoChunkUpload
  \/ IndexEmbedSettledStep
  \/ BatchResolvedStep
  \/ clear

FairSpecIndex ==
  /\ Init
  /\ [][NextIndex]_vars
  /\ \A c \in CallIds : WF_vars(BatchResolved(c))

(***************************************************************************)
(* FairSpecInit: init calls in one process lifetime, with clear and         *)
(* removeDocument in between; the event loop runs the continuation of      *)
(* every settled await.                                                    *)
(***************************************************************************)
NextInit ==
  \/ InitCall
  \/ InitResumeStep
  \/ EmbedSettledStep
  \/ BatchResolvedStep
  \/ RemoveDocumentCall
  \/ clear

FairSpecInit ==
  /\ Init
  /\ [][NextInit]_vars
  /\ \A c \in CallIds : WF_vars(BatchResolved(c))
  /\ \A n \in InitIds : WF_vars(initResume(n))

(***************************************************************************)
(* SpecCeiling: uploads of a small document and of one whose serialized    *)
(* form is over the length the service accepts for the slot, deletions     *)
(* and a page reload.                                                      *)
(***************************************************************************)
\* One sentence of 4,500,001 characters
HugeContent == <<"H", ".">>

CeilingUpload == \E c \in CallIds :
  \/ indexDocument(c, "A", <<"a", ".">>)
  \/ indexDocument(c, "B", HugeContent)

\* The embedding requests of these uploads succeed
CeilingEmbedSettledStep == \E c \in CallIds :
  \E k \in 1..Len(calls[c].segs), v \in DocVectors :
    EmbedSettled(c, k, Embedded(v))

NextCeiling ==
  \/ CeilingUpload
  \/ CeilingEmbedSettledStep
  \/ BatchResolvedStep
  \/ RemoveDocumentCall
  \/ restart

SpecCeiling == Init /\ [][NextCeiling]_vars

(***************************************************************************)
(* SpecChunk: the chunking step of indexDocument on every text of up to    *)
(* MaxTextLen tokens.                                                      *)
(***************************************************************************)
\* One token of each kind the regex and the size test tell apart
ChunkAlphabet == {"a", "W", ".", "?", " "}

Texts == UNION {[1..k -> ChunkAlphabet] : k \in 0..MaxTextLen}

\* indexDocument was called with a text
InitChunk ==
  /\ \E content \in Texts :
       calls = [c \in CallIds |->
                  IF c = 1
                  THEN [IdleCall EXCEPT !.pc = "called", !.name = "A",
                                        !.content = content]
                  ELSE IdleCall]
  /\ chunks = <<>>
  /\ documents = <<>>
  /\ storage = Absent
  /\ initialized = FALSE
  /\ inits = [n \in InitIds |-> IdleInit]
  /\ searches = [s \in SearchIds |-> IdleSearch]
  /\ nextId = 1
  /\ restarts = 0
  /\ FrontInit

\* Lines 105-119: the segments of the text
Chunking(c) ==
  /\ calls[c].pc = "called"
  /\ calls' = [calls EXCEPT ![c].pc = "chunked",
                            ![c].segs = SplitIntoChunks(calls[c].content)]
  /\ UNCHANGED <<chunks, documents, initialized, storage, inits, searches,
                 nextId, restarts>>
  /\ UNCHANGED frontVars

NextChunk == \E c \in CallIds : Chunking(c)

SpecChunk == InitChunk /\ [][NextChunk]_vars

(***************************************************************************)
(* SpecPersist: uploads, one after the other, of one-chunk documents whose  *)
(* embeddings have decimals, deletions and a page reload: what is saved    *)
(* and loaded again.                                                       *)
(***************************************************************************)
\* Embeddings of numbers with no, one and two decimals
PersistVectors == {<<100, 0>>, <<90, 44>>}

\* The user uploads one file at a time
PersistUpload == \E c \in CallIds, name \in Names :
  /\ \A b \in CallIds : calls[b].pc # "await"
  /\ indexDocument(c, name, <<"a", ".">>)

PersistEmbedSettledStep == \E c \in CallIds :
  \E k \in 1..Len(calls[c].segs), v \in PersistVectors :
    EmbedSettled(c, k, Embedded(v))

NextPersist ==
  \/ PersistUpload
  \/ PersistEmbedSettledStep
  \/ BatchResolvedStep
  \/ RemoveDocumentCall
  \/ restart

SpecPersist == Init /\ [][NextPersist]_vars

(***************************************************************************)
(* SpecClear: the service right after clear() has returned while an upload *)
(* started before it still awaits its embeddings; then any operation.      *)
(***************************************************************************)
\* The locals of an indexDocument call at its first await (lines 100-149)
AwaitingCall(name, content, docId) ==
  LET segs == SplitIntoChunks(content)
      res == [k \in 1..Len(segs) |-> Unset]
  IN  [IdleCall EXCEPT !.pc = "await", !.name = name, !.segs = segs,
                       !.docId = docId,
                       !.res = IssueBatch(res, Batch(Len(segs), 0)),
                       !.issued = Cardinality(Batch(Len(segs), 0))]

\* Call 1 was started on the empty store and is awaiting; clear() has just
\* returned.
InitCleared ==
  /\ \E name \in Names, content \in Contents \ {<<>>} :
       calls = [c \in CallIds |->
                  IF c = 1 THEN AwaitingCall(name, content, 1) ELSE IdleCall]
  /\ chunks = <<>>
  /\ documents = <<>>
  /\ initialized = FALSE
  /\ storage = Absent
  /\ inits = [n \in InitIds |-> IdleInit]
  /\ searches = [s \in SearchIds |-> IdleSearch]
  /\ nextId = 2
  /\ restarts = 0
  /\ FrontInit

SpecClear == InitCleared /\ [][Next]_vars

(***************************************************************************)
(* SpecPair: the store holds a document "C"; documents "A" and "B" are     *)
(* uploaded, their calls overlapping in any way, and "C" may be deleted    *)
(* in between.                                                             *)
(***************************************************************************)
InitPair ==
  /\ chunks = <<[id |-> <<1, 1>>, text |-> <<"a", ".">>,
                 embedding |-> <<100, 0>>, sourceName |-> "C"]>>
  /\ documents = <<[id |-> 1, name |-> "C", chunkCount |-> 1]>>
  /\ storage = saveToStorage(Absent, chunks, documents)
  /\ initialized = FALSE
  /\ calls = [c \in CallIds |-> IdleCall]
  /\ inits = [n \in InitIds |-> IdleInit]
  /\ searches = [s \in SearchIds |-> IdleSearch]
  /\ nextId = 2
  /\ restarts = 0
  /\ FrontInit

\* An upload of a name no earlier upload had
PairUpload == \E c \in CallIds, name \in Names :
  /\ \A b \in CallIds : calls[b].name # name
  /\ indexDocument(c, name, TwoChunks)

RemoveThird == removeDocument(1)

NextPair ==
  \/ PairUpload
  \/ EmbedSettledStep
  \/ BatchResolvedStep
  \/ RemoveThird

SpecPair == InitPair /\ [][NextPair]_vars

(***************************************************************************)
(* SpecCache: set, get and clear on CacheService.  The queries are the     *)
(* spellings of three keys: the newest one in the cache, the next word not *)
(* used yet, and the empty key (as one of the first two keys of a cache,   *)
(* and again once it is in).                                               *)
(***************************************************************************)
\* distinct words the model sets
MaxWord == 52

\* The n-th word: a..z, then aa..az, ba..bz, ...
Word(n) ==
  IF n <= 26 THEN <<96 + n>>
  ELSE <<96 + ((n - 1) \div 26), 97 + ((n - 1) % 26)>>

\* The number of the first word that no key of the cache reaches
NextWord(entries) ==
  LET used == {n \in 1..MaxWord :
                 \E k \in 1..Len(entries) : entries[k].key = Word(n)} \cup {0}
  IN  1 + CHOOSE m \in used : \A n \in used : n <= m

\* Queries that normalize to a key: as it is, in capitals, padded, marked
Spellings(key) ==
  LET capitals == [k \in 1..Len(key) |-> key[k] - 32]
  IN  {key, capitals, <<SpaceCode>> \o key, key \o <<63>>,
       <<SpaceCode>> \o capitals \o <<33, SpaceCode>>}

OfferedKeys ==
  (IF Len(cache) <= 1 \/ CacheHas(cache, <<>>) THEN {<<>>} ELSE {})
  \cup (IF cache = <<>> THEN {} ELSE {cache[Len(cache)].key})
  \cup (IF NextWord(cache) <= MaxWord THEN {Word(NextWord(cache))} ELSE {})

NextCache ==
  \/ \E key \in OfferedKeys : \E query \in Spellings(key) :
       cacheSet(query, "R")
  \/ \E key \in OfferedKeys : \E query \in Spellings(key) : cacheGet(query)
  \/ cacheClear

SpecCache == Init /\ [][NextCache]_vars

(***************************************************************************)
(* SpecChat: submits, Stop clicks and the events of the streams they       *)
(* started.                                                                *)
(***************************************************************************)
NextChat ==
  \/ \E s \in SubmitIds, prompt \in Prompts, hasAttachments \in BOOLEAN :
       handleSubmit(s, prompt, hasAttachments)
  \/ handleStop
  \/ \E s \in SubmitIds : SearchReturned(s)
  \/ \E s \in SubmitIds, ok \in BOOLEAN : GenerateReturned(s, ok)
  \/ \E s \in SubmitIds, ok \in BOOLEAN : StreamOpened(s, ok)
  \/ \E s \in SubmitIds, event \in {"chunk", "end", "error"} :
       StreamStep(s, event)

SpecChat == Init /\ [][NextChat]_vars

(***************************************************************************)
(* SpecRank: ranking over stores of two documents, with the scores 0.9,    *)
(* 0.5 and 0.3 (or 0.44, 0.87 and 0.95) and every topK up to beyond the    *)
(* size of the store.                                                      *)
(***************************************************************************)
\* Embeddings of the stored chunks
RankStoredVectors == {<<90, 44>>, <<50, 87>>, <<30, 95>>}

\* Embeddings of the queries
RankQueryVectors == {<<100, 0>>, <<0, 100>>}

\* The store after document "A" of nA sentences and then document "B" of
\* nB sentences were indexed, their chunks embedded as embs
RankStoredChunks(nA, nB, embs) ==
  [k \in 1..(nA + nB) |->
     IF k <= nA
     THEN [id |-> <<1, k>>, text |-> SplitIntoChunks(LongContent(nA))[k],
           embedding |-> embs[k], sourceName |-> "A"]
     ELSE [id |-> <<2, k - nA>>,
           text |-> SplitIntoChunks(LongContent(nB))[k - nA],
           embedding |-> embs[k], sourceName |-> "B"]]

InitRank ==
  /\ \E nA \in 0..MaxStored, nB \in 0..1 :
       /\ nA + nB <= MaxStored
       /\ \E embs \in [1..(nA + nB) -> RankStoredVectors] :
            chunks = RankStoredChunks(nA, nB, embs)
       /\ documents = <<[id |-> 1, name |-> "A", chunkCount |-> nA],
                        [id |-> 2, name |-> "B", chunkCount |-> nB]>>
  /\ storage = saveToStorage(Absent, chunks, documents)
  /\ initialized = FALSE
  /\ calls = [c \in CallIds |-> IdleCall]
  /\ inits = [n \in InitIds |-> IdleInit]
  /\ searches = [s \in SearchIds |-> IdleSearch]
  /\ nextId = 3
  /\ restarts = 0
  /\ FrontInit

RankSearchCall == \E s \in SearchIds, topK \in 1..(MaxStored + MaxTopK) :
  search(s, topK)

RankEmbedSettledStep == \E s \in SearchIds, v \in RankQueryVectors :
  searchEmbedSettled(s, Embedded(v))

NextRank ==
  \/ RankSearchCall
  \/ RankEmbedSettledStep

SpecRank == InitRank /\ [][NextRank]_vars

(***************************************************************************)
(* Properties                                                              *)
(***************************************************************************)
\* Positions of the chunks of chs whose sourceName is name
ChunksOf(chs, name) == {j \in 1..Len(chs) : chs[j].sourceName = name}

\* Positions of the documents of docs named name
DocumentsNamed(docs, name) == {k \in 1..Len(docs) : docs[k].name = name}

\* A chunk or the document record of the call that drew docId is in the store
InStore(chs, docs, docId) ==
  \/ \E j \in 1..Len(chs) : chs[j].id[1] = docId
  \/ \E k \in 1..Len(docs) : docs[k].id = docId

\* Requests of a call that are issued and not settled
InFlight(call) == {k \in DOMAIN call.res : call.res[k].st = "pending"}

\* Requests of a call that embedded
Succeeded(call) == {k \in DOMAIN call.res : call.res[k].st = "ok"}

\* C1: in every reachable state, also when indexDocument calls overlap at
\* their embedding awaits, no two Documents of the Index have the same name.
C1_UniqueDocumentNames ==
  \A j, k \in 1..Len(documents) :
    documents[j].name = documents[k].name => j = k

\* C2: an indexDocument call for a name the Index already holds returns no
\* id, issues no embedding call and leaves the Documents, the Fragments and
\* the stored snapshot as they were.
C2_SecondIndexIsNoOp ==
  [][\A c \in CallIds :
       (/\ calls[c].pc = "idle"
        /\ calls'[c].pc # "idle"
        /\ \E k \in 1..Len(documents) : documents[k].name = calls'[c].name)
       => /\ calls'[c].pc = "done"
          /\ calls'[c].ret = Undefined
          /\ calls'[c].issued = 0
          /\ chunks' = chunks
          /\ documents' = documents
          /\ storage' = storage]_vars

\* A second call for a name returned no id after the first returned one, and
\* the Index holds exactly the one Document the first call recorded.
C2_Witness ==
  \E c1, c2 \in CallIds :
    /\ c1 < c2
    /\ calls[c1].pc = "done" /\ calls[c1].ret # Undefined
    /\ calls[c2].pc = "done" /\ calls[c2].ret = Undefined
    /\ calls[c2].name = calls[c1].name
    /\ Cardinality(DocumentsNamed(documents, calls[c1].name)) = 1
    /\ \E k \in 1..Len(documents) :
         documents[k].id = calls[c1].ret /\ documents[k].chunkCount = 2

\* C3: in every reachable state each Document's chunkCount equals the number
\* of Fragments in the store whose sourceName is that Document's name.
C3_ChunkCountMatchesStore ==
  \A k \in 1..Len(documents) :
    documents[k].chunkCount = Cardinality(ChunksOf(chunks, documents[k].name))

\* C4: in every reachable state the sourceName of every Fragment in the store
\* is the name of exactly one Document of the Index.
C4_ExactlyOneOwner ==
  \A j \in 1..Len(chunks) :
    Cardinality(DocumentsNamed(documents, chunks[j].sourceName)) = 1

C6_BoundedConcurrency ==
  \A c \in CallIds :
    /\ Cardinality(InFlight(calls[c])) <= BATCH_SIZE
    /\ \A j, k \in DOMAIN calls[c].res :
         (/\ (j - 1) \div BATCH_SIZE < (k - 1) \div BATCH_SIZE
          /\ calls[c].res[k].st # "unset")
         => calls[c].res[j].st \notin {"unset", "pending"}

\* The second batch of a call is in flight after a first batch of BATCH_SIZE.
C6_Witness ==
  \E c \in CallIds :
    /\ calls[c].pc = "await"
    /\ calls[c].i = BATCH_SIZE
    /\ calls[c].issued > BATCH_SIZE
    /\ InFlight(calls[c]) # {}

\* C7: a segment whose embedding call rejects or returns no vector makes no
\* Fragment; the call still ends by returning its new id and recording a
\* Document whose chunkCount is the number of segments that embedded (0, and
\* no Fragment added, when every segment failed).
C7_FailedSegmentsDropped ==
  [][\A c \in CallIds :
       (calls[c].pc = "await" /\ calls'[c].pc = "done")
       => LET ok == Succeeded(calls[c])
              id == calls[c].docId
          IN  /\ calls'[c].ret = id
              /\ id # Undefined
              /\ Len(chunks') = Len(chunks) + Cardinality(ok)
              /\ \A k \in DOMAIN calls[c].res :
                   (\E j \in 1..Len(chunks') : chunks'[j].id = <<id, k>>)
                     <=> k \in ok
              /\ documents' =
                   Append(documents,
                          [id |-> id, name |-> calls[c].name,
                           chunkCount |-> Cardinality(ok)])]_vars

\* A call whose two embedding calls both failed has returned its id, and the
\* Index holds its Document with chunkCount 0 and no Fragment of it.
C7_Witness ==
  \E c \in CallIds :
    /\ calls[c].pc = "done"
    /\ calls[c].issued = 2
    /\ calls[c].ret # Undefined
    /\ \E k \in 1..Len(documents) :
         documents[k].id = calls[c].ret /\ documents[k].chunkCount = 0
    /\ \A j \in 1..Len(chunks) : chunks[j].id[1] # calls[c].ret

\* C8: a search called while the store holds no Fragment returns the empty
\* list, for every topK, without a call to the embedding provider.
C8_EmptyStoreNoEmbedding ==
  [][\A s \in SearchIds :
       (searches[s].pc = "idle" /\ searches'[s].pc # "idle" /\ Len(chunks) = 0)
       => /\ searches'[s].pc = "done"
          /\ searches'[s].result = <<>>
          /\ searches'[s].issued = 0]_vars

\* A search has returned without an embedding call.
C8_Witness ==
  \E s \in SearchIds :
    /\ searches[s].pc = "done"
    /\ searches[s].issued = 0
    /\ searches[s].result = <<>>
    /\ Len(chunks) = 0

\* C9: a search on a non-empty store whose query embedding call rejects or
\* returns no vector ends (raises nothing) with the empty list.
C9_FailedQueryEmbeddingGivesEmpty ==
  \A s \in SearchIds :
    (searches[s].issued = 1 /\ searches[s].outcome \in {"reject", "novalues"})
    => searches[s].pc = "done" /\ searches[s].result = <<>>

\* A search over a store of two Fragments ended after its embedding call was
\* rejected.
C9_Witness ==
  \E s \in SearchIds :
    /\ searches[s].pc = "done"
    /\ searches[s].outcome = "reject"
    /\ Len(searches[s].seen) = 2
    /\ Len(chunks) = 2

\* C10: no Fragment whose score is at or below 0.45 is in a search result
\* (and every returned Fragment is one of the store); every Fragment whose
\* score is above 0.45 is in the result when topK is at least the number of
\* Fragments stored.
C10_ThresholdExact ==
  \A s \in SearchIds :
    LET r == searches[s]
        Score(chunk) == cosineSimilarity(r.queryVec, chunk.embedding)
    IN  (r.pc = "done" /\ r.outcome = "ok")
        => /\ \A i \in 1..Len(r.result) :
                /\ Score(r.result[i]) > 4500
                /\ \E j \in 1..Len(r.seen) : r.seen[j] = r.result[i]
           /\ r.topK >= Len(r.seen)
                => \A j \in 1..Len(r.seen) :
                     Score(r.seen[j]) > 4500
                       => \E i \in 1..Len(r.result) : r.result[i] = r.seen[j]

\* A search with topK = 2 over two Fragments, one scoring exactly 0.45 and
\* one above, returned the second alone.
C10_Witness ==
  \E s \in SearchIds :
    LET r == searches[s]
    IN  /\ r.pc = "done" /\ r.outcome = "ok"
        /\ r.topK = 2
        /\ Len(r.seen) = 2
        /\ cosineSimilarity(r.queryVec, r.seen[1].embedding) = 4500
        /\ cosineSimilarity(r.queryVec, r.seen[2].embedding) > 4500
        /\ r.result = <<r.seen[2]>>

\* The score of a chunk against the query vector of a finished search
ScoreIn(r, chunk) == cosineSimilarity(r.queryVec, chunk.embedding)

\* Positions of the chunks a search saw that score above 0.45
AboveIn(r) == {j \in 1..Len(r.seen) : ScoreIn(r, r.seen[j]) > 4500}

\* The place of position j of the store in the reference order: behind every
\* chunk above the threshold that scores more, or the same and is stored
\* earlier
PlaceIn(r, j) ==
  1 + Cardinality({i \in AboveIn(r) :
                     \/ ScoreIn(r, r.seen[i]) > ScoreIn(r, r.seen[j])
                     \/ ScoreIn(r, r.seen[i]) = ScoreIn(r, r.seen[j]) /\ i < j})

\* The position in the store of a chunk a search returned
PositionIn(r, chunk) == CHOOSE j \in 1..Len(r.seen) : r.seen[j] = chunk

\* C11: the result of search is what the reference procedure gives (sort by
\* descending score, drop the scores at or below 0.45, then keep the first
\* topK): its length is min(topK, number of chunks above 0.45) and its k-th
\* element is the chunk whose place in the reference order is k.
C11_EqualsReference ==
  \A s \in SearchIds :
    LET r == searches[s]
        n == IF r.topK < Cardinality(AboveIn(r))
             THEN r.topK ELSE Cardinality(AboveIn(r))
    IN  (r.pc = "done" /\ r.outcome = "ok")
        => /\ Len(r.result) = n
           /\ \A k \in 1..n :
                \E j \in AboveIn(r) : PlaceIn(r, j) = k /\ r.result[k] = r.seen[j]

\* The scenario of the specification: A's chunks score 0.9 and 0.5, B's chunk
\* 0.3, topK = 5, and the result is A's two chunks in that order.
C11_Witness ==
  \E s \in SearchIds :
    LET r == searches[s]
    IN  /\ r.pc = "done" /\ r.outcome = "ok" /\ r.topK = 5
        /\ Len(r.seen) = 3
        /\ r.seen[1].sourceName = "A" /\ ScoreIn(r, r.seen[1]) = 9000
        /\ r.seen[2].sourceName = "A" /\ ScoreIn(r, r.seen[2]) = 5000
        /\ r.seen[3].sourceName = "B" /\ ScoreIn(r, r.seen[3]) = 3000
        /\ r.result = <<r.seen[1], r.seen[2]>>

\* C12: the chunks search returns are in non-increasing score order, and two
\* returned chunks of equal score are in the order they have in the store.
C12_SortedAndStable ==
  \A s \in SearchIds :
    LET r == searches[s]
    IN  (r.pc = "done" /\ r.outcome = "ok")
        => \A a, b \in 1..Len(r.result) :
             a < b =>
               /\ ScoreIn(r, r.result[a]) >= ScoreIn(r, r.result[b])
               /\ ScoreIn(r, r.result[a]) = ScoreIn(r, r.result[b])
                    => PositionIn(r, r.result[a]) < PositionIn(r, r.result[b])

\* Two chunks of equal score are stored in front of a chunk that scores more;
\* the result is the third, then the first, then the second.
C12_Witness ==
  \E s \in SearchIds :
    LET r == searches[s]
    IN  /\ r.pc = "done" /\ r.outcome = "ok"
        /\ Len(r.seen) = 3
        /\ ScoreIn(r, r.seen[1]) = ScoreIn(r, r.seen[2])
        /\ ScoreIn(r, r.seen[3]) > ScoreIn(r, r.seen[1])
        /\ r.result = <<r.seen[3], r.seen[1], r.seen[2]>>

\* new is old restricted to the positions of keep, in the same order
IsRestriction(new, old, keep) ==
  /\ Len(new) = Cardinality(keep)
  /\ \A j \in keep : new[Cardinality({i \in keep : i <= j})] = old[j]

\* C13: a removeDocument(id) step whose id is the id of a Document removes
\* exactly that Document and exactly the chunks whose sourceName is its name;
\* every other Document and every other chunk stays, unchanged and in the
\* same order.
C13_RemovesDocumentAndItsChunks ==
  [][\A id \in 1..nextId :
       ((\E k \in 1..Len(documents) : documents[k].id = id) /\ removeDocument(id))
       => LET k == CHOOSE k \in 1..Len(documents) : documents[k].id = id
              keptDocs == {j \in 1..Len(documents) : documents[j].id # id}
              keptChunks == {j \in 1..Len(chunks) :
                               chunks[j].sourceName # documents[k].name}
          IN  /\ keptDocs = (1..Len(documents)) \ {k}
              /\ IsRestriction(documents', documents, keptDocs)
              /\ IsRestriction(chunks', chunks, keptChunks)]_vars

\* Two calls indexed documents of different names; the Document of one is
\* gone with its chunks, the other Document and its chunks are in the store
\* and in the snapshot.
C13_Witness ==
  \E b, c \in CallIds :
    /\ calls[b].pc = "done" /\ calls[b].ret # Undefined
    /\ calls[c].pc = "done" /\ calls[c].ret # Undefined
    /\ calls[b].name # calls[c].name
    /\ ~InStore(chunks, documents, calls[b].docId)
    /\ ChunksOf(chunks, calls[b].name) = {}
    /\ \E k \in 1..Len(documents) :
         /\ documents[k].id = calls[c].docId
         /\ documents[k].chunkCount > 0
         /\ Cardinality(ChunksOf(chunks, calls[c].name)) = documents[k].chunkCount
    /\ storage = Serialize(chunks, documents)

\* C14: a removeDocument(id) step whose id is the id of no Document changes
\* neither the chunks, nor the Documents, nor the initialized flag, and
\* writes no snapshot.
C14_UnknownIdIsNoOp ==
  [][\A id \in 1..nextId :
       ((\A k \in 1..Len(documents) : documents[k].id # id) /\ removeDocument(id))
       => UNCHANGED <<chunks, documents, initialized, storage>>]_vars

\* A call indexed a document whose id is now the id of no Document (a stale
\* entry of the document list), and the snapshot slot does not hold the
\* store, so that a write would show.
C14_Witness ==
  /\ storage # Serialize(chunks, documents)
  /\ \E c \in CallIds :
       /\ calls[c].pc = "done" /\ calls[c].ret # Undefined
       /\ \A k \in 1..Len(documents) : documents[k].id # calls[c].docId

\* C15: right after a clear step the store has no chunk and no Document,
\* the initialized flag is false and the snapshot slot is absent, so that a
\* service constructed at that point loads an empty store.
C15_ClearEmptiesEverything ==
  [][clear => /\ chunks' = <<>>
              /\ documents' = <<>>
              /\ initialized' = FALSE
              /\ storage'.kind = "absent"
              /\ loadFromStorage(storage').chunks = <<>>
              /\ loadFromStorage(storage').documents = <<>>]_vars

\* init indexed the system knowledge and finished; afterwards the store is
\* empty, the flag false and the slot absent.
C15_Witness ==
  /\ chunks = <<>> /\ documents = <<>>
  /\ initialized = FALSE
  /\ storage = Absent
  /\ \E n \in InitIds :
       /\ inits[n].pc = "done"
       /\ inits[n].call \in CallIds
       /\ calls[inits[n].call].pc = "done"
       /\ calls[inits[n].call].ret # Undefined

\* The slot is missing or holds text that cannot be deserialized
Unreadable(slot) == slot.kind \in {"absent", "corrupt"}

\* C17: when the snapshot slot is missing or cannot be deserialized at
\* process start (the first start and every restart), the constructor raises
\* nothing and the store has no chunk and no Document.
C17_UnreadableSlotGivesEmptyStore ==
  /\ Unreadable(storage)
       => /\ ~loadFromStorage(storage).raised
          /\ chunks = <<>> /\ documents = <<>>
  /\ [][(restarts' = restarts + 1 /\ Unreadable(storage))
          => /\ ~loadFromStorage(storage).raised
             /\ chunks' = <<>> /\ documents' = <<>>]_vars

\* A service just constructed by a restart on a slot that cannot be
\* deserialized.
C17_Witness ==
  /\ restarts = 1
  /\ storage = Corrupt
  /\ chunks = <<>> /\ documents = <<>>
  /\ \A n \in InitIds : inits[n].pc = "idle"
  /\ \A c \in CallIds : calls[c].pc = "idle"

\* C18: whatever the interleaving of init calls, the store never holds more
\* than one Document named SYSTEM_CORE_MEMORY, and no two of its chunks hold
\* the same text.
C18_SystemKnowledgeIndexedOnce ==
  /\ Cardinality(DocumentsNamed(documents, SYSTEM_CORE_MEMORY)) <= 1
  /\ \A i, j \in ChunksOf(chunks, SYSTEM_CORE_MEMORY) :
       chunks[i].text = chunks[j].text => i = j

\* C19: an init call made while a Document named SYSTEM_CORE_MEMORY is in the
\* store (of any chunkCount) starts no indexDocument call, issues no
\* embedding request, and leaves the Documents, the chunks and the snapshot
\* unchanged: it returns at once.
C19_LaterInitIsNoOp ==
  [][\A n \in InitIds :
       ( /\ inits[n].pc = "idle" /\ inits'[n].pc # "idle"
         /\ \E k \in 1..Len(documents) : documents[k].name = SYSTEM_CORE_MEMORY )
       => /\ UNCHANGED <<chunks, documents, storage, calls, nextId>>
          /\ inits'[n].pc = "done"]_vars

\* After a restart the snapshot gave back a SYSTEM_CORE_MEMORY Document of
\* chunkCount 0; init ran and returned without any indexDocument call.
C19_Witness ==
  /\ restarts = 1
  /\ \E k \in 1..Len(documents) :
       documents[k].name = SYSTEM_CORE_MEMORY /\ documents[k].chunkCount = 0
  /\ initialized
  /\ \E n \in InitIds : inits[n].pc = "done"
  /\ \A c \in CallIds : calls[c].pc = "idle"

\* The indexDocument call an init awaits has no embedding request in flight
AllSettled(n) ==
  /\ inits[n].pc = "await"
  /\ \/ calls[inits[n].call].pc = "done"
     \/ calls[inits[n].call].pc = "await" /\ InFlight(calls[inits[n].call]) = {}

\* C20: whatever the outcomes of the embedding requests, an init call that
\* finishes leaves the initialized flag true, and an init call whose
\* embedding requests have all settled does finish, with the flag true.
C20_InitAlwaysCompletes ==
  /\ [][\A n \in InitIds :
          (inits[n].pc # "done" /\ inits'[n].pc = "done") => initialized']_vars
  /\ \A n \in InitIds :
       AllSettled(n) ~> (inits[n].pc = "done" /\ initialized)

\* init finished with the flag true although its only embedding request
\* failed: the SYSTEM_CORE_MEMORY Document has no chunk.
C20_Witness ==
  /\ initialized
  /\ \E n \in InitIds :
       /\ inits[n].pc = "done"
       /\ inits[n].call \in CallIds
       /\ calls[inits[n].call].pc = "done"
       /\ calls[inits[n].call].issued = 1
       /\ \E k \in 1..Len(documents) :
            /\ documents[k].id = calls[inits[n].call].docId
            /\ documents[k].chunkCount = 0
  /\ chunks = <<>>

\* The serialized store is at or over the length saveToStorage accepts
OverCeiling(chs, docs) == SerializedLength(chs, docs) >= 4500000

\* C16: a step that changes the store to one whose serialized form is over
\* the ceiling leaves the snapshot slot as it was; when the step is the end
\* of an indexDocument call, the store has the call's Document and chunks
\* appended and what the slot would load has neither; and a restart gives the
\* store exactly what the slot loads.
C16_CeilingSkipsWrite ==
  [][/\ (OverCeiling(chunks', documents') /\ restarts' = restarts
         /\ <<chunks', documents'>> # <<chunks, documents>>)
          => storage' = storage
     /\ \A c \in CallIds :
          (calls[c].pc = "await" /\ calls'[c].pc = "done"
           /\ OverCeiling(chunks', documents'))
          => /\ Len(documents') = Len(documents) + 1
             /\ SubSeq(documents', 1, Len(documents)) = documents
             /\ documents'[Len(documents')].id = calls[c].docId
             /\ SubSeq(chunks', 1, Len(chunks)) = chunks
             /\ \A j \in (Len(chunks) + 1)..Len(chunks') :
                  chunks'[j].id[1] = calls[c].docId
             /\ ~InStore(loadFromStorage(storage').chunks,
                         loadFromStorage(storage').documents, calls[c].docId)
     /\ restarts' = restarts + 1
          => /\ chunks' = loadFromStorage(storage).chunks
             /\ documents' = loadFromStorage(storage).documents]_vars

\* The store holds document "A" and the large document "B" with its chunk;
\* the slot holds the snapshot taken before "B", with "A" alone.
C16_Witness ==
  /\ Len(documents) = 2
  /\ documents[1].name = "A" /\ documents[2].name = "B"
  /\ documents[2].chunkCount = 1
  /\ \E j \in 1..Len(chunks) :
       chunks[j].sourceName = "B" /\ TextLength(chunks[j].text) >= 4500000
  /\ storage = Serialize(SubSeq(chunks, 1, Len(chunks) - 1), <<documents[1]>>)

\* The text without its whitespace
StripSpace(text) == SelectSeq(text, LAMBDA t : t \notin Space)

\* C21: the segments of a text, joined in order and stripped of whitespace,
\* are the text stripped of whitespace.
C21_ChunkingLosesNothing ==
  \A c \in CallIds :
    calls[c].pc = "chunked"
    => StripSpace(Concat(calls[c].segs)) = StripSpace(calls[c].content)

\* C22: a segment is at most TARGET_CHUNK_SIZE characters long, unless it is
\* one sentence (trimmed) that is itself longer than that.
C22_SegmentsWithinTarget ==
  \A c \in CallIds :
    calls[c].pc = "chunked"
    => \A k \in 1..Len(calls[c].segs) :
         \/ TextLength(calls[c].segs[k]) <= 1000
         \/ \E j \in 1..Len(Sentences(calls[c].content)) :
              /\ calls[c].segs[k] = Trim(Sentences(calls[c].content)[j])
              /\ TextLength(Sentences(calls[c].content)[j]) > 1000

\* A text of two sentences: the first alone is over the target and is a
\* segment by itself, the second is put in a segment of its own.
C22_Witness ==
  \E c \in CallIds :
    /\ calls[c].pc = "chunked"
    /\ Len(Sentences(calls[c].content)) = 2
    /\ Len(calls[c].segs) = 2
    /\ TextLength(calls[c].segs[1]) > 1000
    /\ TextLength(calls[c].segs[2]) <= 1000

\* C23: an indexDocument call that is awaiting its embeddings stays in
\* flight until it returns; when it returns it has issued one embedding
\* request per segment, appended its chunks and its Document, saved, and
\* returns its id; and it does return, provided its own embedding requests
\* settle, whatever becomes of the requests of the other calls.
C23_IndexDocumentCompletes ==
  /\ [][\A c \in CallIds :
          calls[c].pc = "await"
          => /\ calls'[c].pc \in {"await", "done"}
             /\ calls'[c].pc = "done"
                  => /\ calls'[c].issued = Len(calls[c].segs)
                     /\ calls'[c].ret = calls[c].docId
                     /\ calls'[c].ret # Undefined
                     /\ Len(documents') = Len(documents) + 1
                     /\ documents'[Len(documents')].id = calls[c].docId
                     /\ Len(chunks') = Len(chunks) + Cardinality(Succeeded(calls[c]))
                     /\ storage' = Serialize(chunks', documents')]_vars
  /\ \A c \in CallIds :
       WF_vars(EmbedSettledOf(c))
       => (calls[c].pc = "await" ~> calls[c].pc = "done")

\* A call that started second has returned its id, with both its chunks in
\* the store, while the call that started first still waits for the
\* embedding provider.
C23_Witness ==
  \E b, c \in CallIds :
    /\ b < c
    /\ calls[b].pc = "await" /\ InFlight(calls[b]) # {}
    /\ calls[c].pc = "done" /\ calls[c].ret # Undefined /\ calls[c].issued = 2
    /\ Cardinality({j \in 1..Len(chunks) : chunks[j].id[1] = calls[c].docId}) = 2

\* C24: after a step in which an indexDocument call returns an id, and
\* after a removeDocument step on a known id, when the serialized store is
\* under the ceiling, loading the snapshot slot gives exactly the chunks and
\* the Documents of the store, in the same order; and a restart on such a
\* slot starts with that store and with initialized false.
C24_SnapshotMirrorsStore ==
  [][/\ ( /\ \/ \E c \in CallIds :
                  /\ calls[c].pc # "done" /\ calls'[c].pc = "done"
                  /\ calls'[c].ret # Undefined
             \/ \E id \in 1..nextId :
                  /\ \E k \in 1..Len(documents) : documents[k].id = id
                  /\ Len(documents') < Len(documents)
                  /\ removeDocument(id)
          /\ ~OverCeiling(chunks', documents') )
          => /\ storage'.kind = "json"
             /\ loadFromStorage(storage').chunks = chunks'
             /\ loadFromStorage(storage').documents = documents'
     /\ ( /\ restarts' = restarts + 1
          /\ storage.kind = "json"
          /\ loadFromStorage(storage).chunks = chunks
          /\ loadFromStorage(storage).documents = documents )
          => /\ chunks' = chunks
             /\ documents' = documents
             /\ initialized' = FALSE]_vars

\* A service constructed by a restart holds the one Document left after two
\* uploads and a deletion, with its chunk and its embedding of two decimals.
C24_Witness ==
  /\ restarts = 1
  /\ \A c \in CallIds : calls[c].pc = "idle"
  /\ initialized = FALSE
  /\ Len(documents) = 1 /\ documents[1].id = 2 /\ documents[1].chunkCount = 1
  /\ Len(chunks) = 1 /\ chunks[1].embedding = <<90, 44>>
  /\ loadFromStorage(storage).chunks = chunks
  /\ loadFromStorage(storage).documents = documents
  /\ storage.chunks[1].embedding = <<<<"0", ".", "9">>, <<"0", ".", "4", "4">>>>

\* C25: after clear() has returned, as long as no indexDocument call started
\* after it has completed, the store has no chunk and no Document and the
\* snapshot slot is absent (call 1 is the call started before the clear).
C25_ClearedStaysEmpty ==
  (\A c \in CallIds \ {1} : calls[c].pc # "done")
  => /\ chunks = <<>>
     /\ documents = <<>>
     /\ storage.kind = "absent"

\* The chunks of chs made by the call that drew docId
MadeBy(chs, docId) == {j \in 1..Len(chs) : chs[j].id[1] = docId}

\* C26: when two indexDocument calls for different names have both returned,
\* however they interleaved and whether or not a third document was deleted
\* in between, the store has the Document of each, each with as many chunks
\* as its chunkCount in one contiguous block, and the snapshot is the store;
\* and the step in which a call returns adds exactly the chunks that
\* embedded, behind all chunks of the store, which it leaves as they were.
C26_NoLostUpdate ==
  /\ [](\A b, c \in CallIds :
          ( /\ b # c
            /\ calls[b].pc = "done" /\ calls[b].ret # Undefined
            /\ calls[c].pc = "done" /\ calls[c].ret # Undefined )
          => /\ \A x \in {b, c} :
                  \E k \in 1..Len(documents) :
                    /\ documents[k].id = calls[x].docId
                    /\ documents[k].name = calls[x].name
                    /\ Cardinality(MadeBy(chunks, calls[x].docId))
                         = documents[k].chunkCount
                    /\ \A i, j \in MadeBy(chunks, calls[x].docId) :
                         \A m \in i..j : m \in MadeBy(chunks, calls[x].docId)
             /\ loadFromStorage(storage).chunks = chunks
             /\ loadFromStorage(storage).documents = documents)
  /\ [][\A c \in CallIds :
          (calls[c].pc = "await" /\ calls'[c].pc = "done")
          => /\ SubSeq(chunks', 1, Len(chunks)) = chunks
             /\ SubSeq(documents', 1, Len(documents)) = documents
             /\ MadeBy(chunks', calls[c].docId)
                  = (Len(chunks) + 1)..(Len(chunks) + Cardinality(Succeeded(calls[c])))
             /\ Len(chunks') = Len(chunks) + Cardinality(Succeeded(calls[c]))]_vars

\* Both calls have returned after the third document was deleted while they
\* were awaiting; the call that started second returned first, and each
\* document has its two chunks.
C26_Witness ==
  /\ calls[1].pc = "done" /\ calls[2].pc = "done"
  /\ Len(documents) = 2
  /\ documents[1].id = calls[2].docId /\ documents[2].id = calls[1].docId
  /\ documents[1].chunkCount = 2 /\ documents[2].chunkCount = 2
  /\ Len(chunks) = 4
  /\ ChunksOf(chunks, "C") = {}

\* C27: the chunks one indexDocument call put in the store are in the order
\* of the segments they were made from (the second component of a chunk's
\* id is the position of its segment), and each has the text of its segment.
C27_SegmentOrderKept ==
  \A i, j \in 1..Len(chunks) :
    /\ (i < j /\ chunks[i].id[1] = chunks[j].id[1])
         => chunks[i].id[2] < chunks[j].id[2]
    /\ chunks[i].text
         = SplitIntoChunks(LongContent(LongSentences))[chunks[i].id[2]]

\* The long upload has returned with chunks of both batches in the store,
\* the segments 2 and 6 dropped in between.
C27_Witness ==
  /\ calls[1].pc = "done"
  /\ Len(chunks) = LongSentences - 2
  /\ \A j \in 1..Len(chunks) : chunks[j].id[2] \notin {2, 6}
  /\ chunks[Len(chunks)].id[2] = LongSentences

\* C28: at most one stream is running at a time, and while a stream that was
\* not stopped is running, isProcessing is true and abortControllerRef holds
\* that stream's controller.
C28_RunningStreamOwnsControls ==
  \A s \in SubmitIds :
    Running(streams[s])
      => /\ \A t \in SubmitIds : Running(streams[t]) => t = s
         /\ ~streams[s].aborted
              => isProcessing /\ abortControllerRef = s

\* C29: a generator whose abort signal is set yields nothing further.
C29_NoYieldAfterAbort ==
  [][\A s \in SubmitIds :
       streams[s].aborted => streams'[s].yielded = streams[s].yielded]_vars

\* C30: the cache never holds more than MAX_SIZE entries.
C30_CacheWithinMaxSize == Len(cache) <= MAX_SIZE

====
